---- MODULE Spec2Model ----
(***************************************************************************)
(* Model of src/list_models.py: a script that reads ANTHROPIC_API_KEY,     *)
(* constructs an Anthropic client, calls client.models.list() once, takes  *)
(* the .model_data attribute of what the call returned and prints m['id']  *)
(* for every element m of it.                                              *)
(*                                                                         *)
(* The script has no try/except, no loop but the one for statement and no  *)
(* sys.exit: a raised exception reaches the interpreter's top level, which *)
(* writes the traceback to stderr and ends the process with status 1; the  *)
(* end of the script ends the process with status 0.                       *)
(*                                                                         *)
(* The vendor SDK is not part of the repository.  Its two entry points are *)
(* modelled by the outcomes they can hand back to the script (a value or   *)
(* an exception); what the SDK does internally is outside the model.       *)
(***************************************************************************)
EXTENDS Naturals, Sequences, FiniteSets

VARIABLES
    pc,          \* position of the script
    environ,     \* os.environ: variable name -> value, or None when unset
    environ0,    \* history: os.environ when the process started
    env_reads,   \* history: names the script has passed to os.getenv
    api_key,     \* the value os.getenv returned
    client,      \* the module-level name client
    calls,       \* history: invocations of client.models.list
    call_status, \* history: "not_called", "returned" or "failed"
    response,    \* what client.models.list() returned
    idx,         \* position of the for statement's iterator in model_data
    m,           \* the loop variable
    streams,     \* characters written to stdout and to stderr
    files,       \* history: files and stores written
    exit_status, \* <<>> while the process runs, <<status>> once it ended
    failure,     \* history: the exception that ended the run, or None
    events       \* history: the steps taken, in order

vars == <<pc, environ, environ0, env_reads, api_key, client, calls, call_status,
          response, idx, m, streams, files, exit_status, failure, events>>

(***************************************************************************)
(* Bounds of the model.                                                    *)
(***************************************************************************)
MaxModels == 3
MaxIdLen == 1
MaxCalls == 3

(***************************************************************************)
(* Values.                                                                 *)
(***************************************************************************)
None == "<None>"
NL == "\n"
IdChars == {"a", "b"}

CredentialVar == "ANTHROPIC_API_KEY"
OtherVar == "HOME"
EnvVars == {CredentialVar, OtherVar}

ValidKey == "sk-valid"
InvalidKey == "sk-invalid"
EmptyKey == ""
\* What the credential variable can hold when the process starts.
CredentialValues == {None, EmptyKey, ValidKey, InvalidKey}

SeqsUpTo(S, n) == UNION {[1..k -> S] : k \in 0..n}

\* Identifiers the API can return: single-line strings.
Identifiers == SeqsUpTo(IdChars, MaxIdLen)

\* A model record: a mapping that has an 'id' entry, or (malformed) has none.
NoIdRecord == [has_id |-> FALSE, id |-> <<>>]
ModelRecords == {[has_id |-> TRUE, id |-> i] : i \in Identifiers} \cup {NoIdRecord}

\* What client.models.list() can return: an object with a model_data
\* attribute holding the records, or an object without that attribute.
NoResponse == [has_model_data |-> FALSE, model_data |-> <<>>, has_more |-> FALSE]
Responses ==
    {[has_model_data |-> TRUE, model_data |-> d, has_more |-> h] :
        d \in SeqsUpTo(ModelRecords, MaxModels), h \in BOOLEAN}
    \cup {NoResponse}

NoClient == [constructed |-> FALSE, api_key |-> None]

(***************************************************************************)
(* The vendor SDK, by its outcomes.                                        *)
(***************************************************************************)
\* Anthropic(api_key=key): a client holding the key; without a credential
\* the constructor may instead raise.
AnthropicOutcomes(key) ==
    {"ok"} \cup (IF key \in {None, EmptyKey} THEN {"raise"} ELSE {})

\* client.models.list(): the call can always fail (connectivity, timeout,
\* rate limiting); it returns only to a client holding an accepted key.
ModelsListOutcomes(c) ==
    {"raise"} \cup (IF c.api_key = ValidKey THEN {"ok"} ELSE {})

(***************************************************************************)
(* Python, as the script uses it.                                          *)
(***************************************************************************)
\* os.getenv(name) with a hardcoded fallback key: a variant of os_getenv.
os_getenv_default(e, name) == IF e[name] = None THEN ValidKey ELSE e[name]

\* os.getenv(name): the variable's value, None when it is unset.
os_getenv(e, name) == e[name]

\* print(x, end=''): a variant of print_text.
print_text_no_newline(x) == x

\* print(x) writes str(x) followed by a newline; x is a string here.
print_text(x) == x \o <<NL>>

\* print(..., file=sys.stderr): a variant of PrintFile.
PrintFileStderr == "stderr"

\* print's default file.
PrintFile == "stdout"

\* What the interpreter writes to stderr for an uncaught exception.
Traceback(exc) == <<exc>>

\* The script ending with every exception swallowed (a bare except: pass
\* around it): a variant of Raise.
RaiseSwallowed(exc) ==
    /\ pc' = "exited"
    /\ exit_status' = <<0>>
    /\ failure' = exc
    /\ UNCHANGED streams

\* An exception raised at module level with no handler in the script: the
\* interpreter writes the traceback to stderr and exits with status 1.
Raise(exc) ==
    /\ pc' = "exited"
    /\ exit_status' = <<1>>
    /\ failure' = exc
    /\ streams' = [streams EXCEPT !["stderr"] = @ \o Traceback(exc)]

(***************************************************************************)
(* Initial state: the process has started, nothing has run.                *)
(***************************************************************************)
Init ==
    /\ pc = "getenv"
    /\ environ \in {[v \in EnvVars |-> IF v = CredentialVar THEN k ELSE "/root"] :
                        k \in CredentialValues}
    /\ environ0 = environ
    /\ env_reads = <<>>
    /\ api_key = None
    /\ client = NoClient
    /\ calls = 0
    /\ call_status = "not_called"
    /\ response = NoResponse
    /\ idx = 0
    /\ m = NoIdRecord
    /\ streams = [stdout |-> <<>>, stderr |-> <<>>]
    /\ files = {}
    /\ exit_status = <<>>
    /\ failure = None
    /\ events = <<>>

(***************************************************************************)
(* Line 5, the argument: os.getenv('ANTHROPIC_API_KEY').                   *)
(***************************************************************************)
\* The variable read twice (once to test it, once to use it): a variant.
GetEnvTwice ==
    /\ pc = "getenv"
    /\ api_key' = os_getenv(environ, CredentialVar)
    /\ env_reads' = env_reads \o <<CredentialVar, CredentialVar>>
    /\ events' = events \o <<"getenv", "getenv">>
    /\ pc' = "construct"
    /\ UNCHANGED <<environ, environ0, client, calls, call_status, response, idx, m,
                   streams, files, exit_status, failure>>

GetEnv ==
    /\ pc = "getenv"
    /\ api_key' = os_getenv(environ, CredentialVar)
    /\ env_reads' = Append(env_reads, CredentialVar)
    /\ events' = Append(events, "getenv")
    /\ pc' = "construct"
    /\ UNCHANGED <<environ, environ0, client, calls, call_status, response, idx, m,
                   streams, files, exit_status, failure>>

(***************************************************************************)
(* Line 5: client = Anthropic(api_key=...).                                *)
(***************************************************************************)
Construct ==
    /\ pc = "construct"
    /\ events' = Append(events, "construct")
    /\ \E o \in AnthropicOutcomes(api_key) :
        \/ /\ o = "ok"
           /\ client' = [constructed |-> TRUE, api_key |-> api_key]
           /\ pc' = "list"
           /\ UNCHANGED <<streams, exit_status, failure>>
        \/ /\ o = "raise"
           /\ Raise("AnthropicError")
           /\ UNCHANGED client
    /\ UNCHANGED <<environ, environ0, env_reads, api_key, calls, call_status,
                   response, idx, m, files>>

(***************************************************************************)
(* Line 6: client.models.list(), called with no argument.                  *)
(***************************************************************************)
\* A failed call tried again: a variant of ModelsList.
ModelsListRetry ==
    /\ pc = "list"
    /\ calls < MaxCalls
    /\ calls' = calls + 1
    /\ events' = Append(events, "call")
    /\ \E o \in ModelsListOutcomes(client) :
        \/ /\ o = "ok"
           /\ \E r \in Responses : response' = r
           /\ call_status' = "returned"
           /\ pc' = "model_data"
        \/ /\ o = "raise"
           /\ call_status' = "failed"
           /\ pc' = "list"
           /\ UNCHANGED response
    /\ UNCHANGED <<environ, environ0, env_reads, api_key, client, idx, m, files,
                   streams, exit_status, failure>>

\* A failed call answered from a built-in list: a variant of ModelsList.
ModelsListFallback ==
    /\ pc = "list"
    /\ calls < MaxCalls
    /\ calls' = calls + 1
    /\ events' = Append(events, "call")
    /\ \E o \in ModelsListOutcomes(client) :
        \/ /\ o = "ok"
           /\ \E r \in Responses : response' = r
           /\ call_status' = "returned"
        \/ /\ o = "raise"
           /\ call_status' = "failed"
           /\ response' = [has_model_data |-> TRUE,
                           model_data |-> <<[has_id |-> TRUE, id |-> <<>>]>>,
                           has_more |-> FALSE]
    /\ pc' = "model_data"
    /\ UNCHANGED <<environ, environ0, env_reads, api_key, client, idx, m, files,
                   streams, exit_status, failure>>

ModelsList ==
    /\ pc = "list"
    /\ calls < MaxCalls
    /\ calls' = calls + 1
    /\ events' = Append(events, "call")
    /\ \E o \in ModelsListOutcomes(client) :
        \/ /\ o = "ok"
           /\ \E r \in Responses : response' = r
           /\ call_status' = "returned"
           /\ pc' = "model_data"
           /\ UNCHANGED <<streams, exit_status, failure>>
        \/ /\ o = "raise"
           /\ call_status' = "failed"
           /\ Raise("APIError")
           /\ UNCHANGED response
    /\ UNCHANGED <<environ, environ0, env_reads, api_key, client, idx, m, files>>

(***************************************************************************)
(* Line 6: the .model_data attribute, and the for statement's iterator.    *)
(***************************************************************************)
\* An empty list reported as an error: a variant of GetModelData.
GetModelDataEmptyIsError ==
    /\ pc = "model_data"
    /\ events' = Append(events, "model_data")
    /\ \/ /\ response.has_model_data
          /\ response.model_data # <<>>
          /\ idx' = 1
          /\ pc' = "for"
          /\ UNCHANGED <<streams, exit_status, failure>>
       \/ /\ response.has_model_data
          /\ response.model_data = <<>>
          /\ Raise("ValueError")
          /\ UNCHANGED idx
       \/ /\ ~response.has_model_data
          /\ Raise("AttributeError")
          /\ UNCHANGED idx
    /\ UNCHANGED <<environ, environ0, env_reads, api_key, client, calls,
                   call_status, response, m, files>>

GetModelData ==
    /\ pc = "model_data"
    /\ events' = Append(events, "model_data")
    /\ \/ /\ response.has_model_data
          /\ idx' = 1
          /\ pc' = "for"
          /\ UNCHANGED <<streams, exit_status, failure>>
       \/ /\ ~response.has_model_data
          /\ Raise("AttributeError")
          /\ UNCHANGED idx
    /\ UNCHANGED <<environ, environ0, env_reads, api_key, client, calls,
                   call_status, response, m, files>>

(***************************************************************************)
(* Line 6: the for statement takes the next element, or ends the script.   *)
(***************************************************************************)
ForNext ==
    /\ pc = "for"
    /\ \/ /\ idx <= Len(response.model_data)
          /\ m' = response.model_data[idx]
          /\ idx' = idx + 1
          /\ pc' = "body"
          /\ UNCHANGED exit_status
       \/ /\ idx > Len(response.model_data)
          /\ pc' = "exited"
          /\ exit_status' = <<0>>
          /\ UNCHANGED <<m, idx>>
    /\ UNCHANGED <<environ, environ0, env_reads, api_key, client, calls,
                   call_status, response, streams, files, failure, events>>

(***************************************************************************)
(* Line 7: print(m['id']).                                                 *)
(***************************************************************************)
\* A record without an id skipped ('id' in m tested first): a variant.
PrintIdSkipping ==
    /\ pc = "body"
    /\ \/ /\ ~m.has_id
          /\ pc' = "for"
          /\ UNCHANGED <<streams, exit_status, failure, events>>
       \/ /\ m.has_id
          /\ streams' = [streams EXCEPT ![PrintFile] = @ \o print_text(m.id)]
          /\ events' = Append(events, "print")
          /\ pc' = "for"
          /\ UNCHANGED <<exit_status, failure>>
    /\ UNCHANGED <<environ, environ0, env_reads, api_key, client, calls,
                   call_status, response, idx, m, files>>

PrintId ==
    /\ pc = "body"
    /\ \/ /\ ~m.has_id
          /\ Raise("KeyError")
          /\ UNCHANGED events
       \/ /\ m.has_id
          /\ streams' = [streams EXCEPT ![PrintFile] = @ \o print_text(m.id)]
          /\ events' = Append(events, "print")
          /\ pc' = "for"
          /\ UNCHANGED <<exit_status, failure>>
       \/ /\ m.has_id
          /\ Raise("OSError")
          /\ UNCHANGED events
    /\ UNCHANGED <<environ, environ0, env_reads, api_key, client, calls,
                   call_status, response, idx, m, files>>

Next ==
    \/ GetEnv
    \/ Construct
    \/ ModelsList
    \/ GetModelData
    \/ ForNext
    \/ PrintId

Spec == Init /\ [][Next]_vars

\* The interpreter keeps running the script; only the remote call, on which
\* the script sets no timeout, may never complete.
FairSpec ==
    /\ Spec
    /\ WF_vars(GetEnv)
    /\ WF_vars(Construct)
    /\ WF_vars(GetModelData)
    /\ WF_vars(ForNext)
    /\ WF_vars(PrintId)

(***************************************************************************)
(* Reading the state.                                                      *)
(***************************************************************************)
Stdout == streams["stdout"]
Stderr == streams["stderr"]
Exited == pc = "exited"
Succeeded == Exited /\ exit_status = <<0>>
Returned == call_status = "returned" /\ response.has_model_data
Records == response.model_data
NumRecords == Len(Records)

\* The identifiers of a sequence of records.
IdsOf(d) == [k \in 1..Len(d) |-> d[k].id]
AllHaveId(d) == \A k \in 1..Len(d) : d[k].has_id

\* The lines of a text: the segments its newlines end, and what follows the
\* last newline when that is not empty.
RECURSIVE SplitFrom(_, _, _)
SplitFrom(s, cur, acc) ==
    IF s = <<>> THEN (IF cur = <<>> THEN acc ELSE Append(acc, cur))
    ELSE IF Head(s) = NL THEN SplitFrom(Tail(s), <<>>, Append(acc, cur))
    ELSE SplitFrom(Tail(s), Append(cur, Head(s)), acc)
Lines(s) == SplitFrom(s, <<>>, <<>>)

\* How often x occurs in the sequence s.
Count(s, x) == Cardinality({k \in 1..Len(s) : s[k] = x})
PrintCount == Count(events, "print")

(***************************************************************************)
(* C1: a successful run has written exactly one line per returned record,  *)
(* line k being the identifier of record k, each ended by a newline, in    *)
(* the order of the returned collection.                                   *)
(***************************************************************************)
C1_OutputIsIdentifierList ==
    Succeeded =>
        /\ Returned
        /\ AllHaveId(Records)
        /\ Lines(Stdout) = IdsOf(Records)
        /\ Count(Stdout, NL) = NumRecords

C1_Witness ==
    /\ Succeeded
    /\ NumRecords >= 2
    /\ Records[1].id # Records[2].id
    /\ Stdout # <<>>

(***************************************************************************)
(* C2: when the credential variable was unset at process start, nothing is *)
(* ever written to stdout and the process never ends with status 0.        *)
(***************************************************************************)
C2_AbsentCredentialFails ==
    environ0["ANTHROPIC_API_KEY"] = None =>
        /\ Stdout = <<>>
        /\ PrintCount = 0
        /\ Exited => exit_status # <<0>>

C2_Witness ==
    /\ environ0["ANTHROPIC_API_KEY"] = None
    /\ Exited
    /\ client.constructed
    /\ failure = "APIError"

(***************************************************************************)
(* C3: a failed list call ends the process with a non-zero status and an   *)
(* empty stdout, and nothing is printed unless the call has returned.      *)
(***************************************************************************)
C3_FailedCallPrintsNothing ==
    /\ call_status = "failed" =>
          /\ Exited
          /\ exit_status # <<0>>
          /\ Stdout = <<>>
    /\ (Stdout # <<>> \/ PrintCount > 0) => call_status = "returned"

C3_Witness ==
    /\ call_status = "failed"
    /\ client.api_key = ValidKey
    /\ Exited

(***************************************************************************)
(* C4: the list operation is invoked at most once; never without a client; *)
(* exactly once in a finished run whose client was constructed, also when  *)
(* the call failed and when the response announces further pages.          *)
(***************************************************************************)
C4_SingleCall ==
    /\ calls <= 1
    /\ Count(events, "call") = calls
    /\ ~client.constructed => calls = 0
    /\ (Exited /\ client.constructed) => calls = 1

C4_Witness ==
    /\ Succeeded
    /\ response.has_more
    /\ calls = 1
    /\ NumRecords >= 1

(***************************************************************************)
(* C5: a finished run has status 0 exactly when no exception was raised;   *)
(* every exception, whatever its class, gives status 1; and a run without  *)
(* exception constructed the client, got the call's result and printed     *)
(* every record.                                                           *)
(***************************************************************************)
C5_ExitStatusIffNoFailure ==
    /\ Exited <=> exit_status # <<>>
    /\ Exited =>
          /\ exit_status \in {<<0>>, <<1>>}
          /\ exit_status = <<0>> <=> failure = None
          /\ failure = None =>
                /\ client.constructed
                /\ Returned
                /\ PrintCount = NumRecords
    /\ ~Exited => failure = None

C5_Witness ==
    /\ Exited
    /\ failure = "KeyError"
    /\ exit_status = <<1>>

(***************************************************************************)
(* C6: when the call returned an empty collection nothing is written to    *)
(* stdout, no exception is raised and the run ends with status 0.          *)
(***************************************************************************)
C6_EmptyListIsSuccess ==
    (Returned /\ NumRecords = 0) =>
        /\ Stdout = <<>>
        /\ failure = None
        /\ Exited => exit_status = <<0>>

C6_Witness ==
    /\ Returned
    /\ NumRecords = 0
    /\ Succeeded

(***************************************************************************)
(* C7, as claimed: in every execution, failing ones included, nothing is   *)
(* written to any stream but stdout, no file or store is written and the   *)
(* environment is unchanged.                                               *)
(***************************************************************************)
C7_Original_NoOtherStream ==
    /\ Stderr = <<>>
    /\ files = {}
    /\ environ = environ0

(***************************************************************************)
(* C7, amended: no file or store is written and the environment is         *)
(* unchanged in every execution; stderr stays empty unless an exception    *)
(* ended the run, and then holds only that exception's traceback.          *)
(***************************************************************************)
C7_OnlyStdoutAndDiagnostic ==
    /\ files = {}
    /\ environ = environ0
    /\ Stderr = (IF failure = None THEN <<>> ELSE <<failure>>)

C7_Witness ==
    /\ Exited
    /\ failure = "KeyError"
    /\ Stdout # <<>>
    /\ Stderr # <<>>

(***************************************************************************)
(* C8: the steps happen in the order getenv, construct, call, attribute,   *)
(* prints; the credential variable is read exactly once, as the first      *)
(* step, no other variable is read, and a print happens only after the     *)
(* call has returned.                                                      *)
(***************************************************************************)
C8_StepOrder ==
    /\ \A k \in 1..Len(events) :
          events[k] = (CASE k = 1 -> "getenv"
                         [] k = 2 -> "construct"
                         [] k = 3 -> "call"
                         [] k = 4 -> "model_data"
                         [] OTHER -> "print")
    /\ env_reads = (IF pc = "getenv" THEN <<>> ELSE <<"ANTHROPIC_API_KEY">>)
    /\ client.constructed => Len(events) >= 2
    /\ calls > 0 => client.constructed
    /\ PrintCount > 0 => call_status = "returned"

C8_Witness ==
    /\ Exited
    /\ PrintCount >= 2
    /\ Len(events) >= 6

(***************************************************************************)
(* C9: the script never prints more often than there are records; every    *)
(* step but the remote call completes; and once the call has returned or   *)
(* failed the process ends.                                                *)
(***************************************************************************)
C9_Terminates ==
    /\ [](PrintCount <= NumRecords /\ idx <= NumRecords + 1)
    /\ (pc # "list") ~> (pc \in {"list", "exited"})
    /\ (call_status # "not_called") ~> Exited

C9_Witness ==
    /\ Succeeded
    /\ NumRecords >= 2
    /\ PrintCount = NumRecords

(***************************************************************************)
(* C10: what stdout holds is always the identifiers of the first           *)
(* PrintCount records, one per line; when a record without an id is        *)
(* reached, the lines of the records before it stay, nothing further is    *)
(* printed and the process ends with a non-zero status.                    *)
(***************************************************************************)
C10_StdoutIsPrefix ==
    /\ PrintCount <= NumRecords
    /\ AllHaveId(SubSeq(Records, 1, PrintCount))
    /\ Lines(Stdout) = IdsOf(SubSeq(Records, 1, PrintCount))
    /\ failure = "KeyError" =>
          /\ Exited
          /\ exit_status # <<0>>
          /\ ~Records[idx - 1].has_id
          /\ PrintCount = idx - 2

C10_Witness ==
    /\ failure = "KeyError"
    /\ Exited
    /\ PrintCount >= 1
    /\ NumRecords > PrintCount + 1

====
